---- MODULE Spec2Model ----
(***************************************************************************)
(* Model of the playlist command group of discord_music_bot                *)
(* (src/discord_bot/cogs/playlist.py).                                     *)
(*                                                                         *)
(* self.playlists is a Python dict: guild key -> (playlist name -> list of *)
(* track urls).  Python dict keys of different types never compare equal   *)
(* (1 != "1"), so a top-level key is modelled as a tagged value: PyStr(s)  *)
(* for a str key, PyInt(n) for an int key.  The inner dict is iterated by  *)
(* list_playlist, so it keeps its insertion order: it is a sequence of     *)
(* <<name, tracks>> pairs with distinct names.                             *)
(***************************************************************************)
EXTENDS Integers, Sequences, FiniteSets, TLC

\* ------------------------------------------------------------------ bounds
\* the most tracks a playlists.json read at startup holds
MaxTracks == 2

GuildIds == {1, 2}
PlaylistNames == {"1", "a"}
TrackUrls == {"u1", "u2"}
\* the urls the add command is given: one that resolves, one that does not
Urls == {"u1", "bad"}
TrackIds == (0 - 1) .. (MaxTracks + 1)
Tasks == {"t1", "t2"}
\* the add command in flight when the commands come one after another
OneTask == {"t1"}
\* what befalls the next write of playlists.json: nothing, open() raises
\* OSError, or the process is killed between open(.., "w") and the end of
\* json.dump
Faults == {"none", "unavailable", "kill"}

\* playlists: self.playlists; disk: playlists.json; tasks: the add commands
\* suspended at an await; last: the reply of the command that ended last;
\* fault: what befalls the next write of the file; up: the bot process runs
\* with the command group constructed
VARIABLES playlists, disk, tasks, last, fault, up
vars == <<playlists, disk, tasks, last, fault, up>>

\* ------------------------------------------------------- Python data model
PyStr(s) == <<"str", s>>
PyInt(n) == <<"int", n>>

\* str(interaction.guild_id)
str(g) == PyStr(ToString(g))

EmptyDict == [k \in {} |-> <<>>]

\* `not d.get(k)`: the key is missing (get gives None) or its dict is empty
NotGet(d, k) == k \notin DOMAIN d \/ d[k] = <<>>

\* d[k] = v on the top-level dict
DictSet(d, k, v) == [x \in DOMAIN d \cup {k} |-> IF x = k THEN v ELSE d[x]]

\* the inner, insertion-ordered dict
Keys(od) == {od[i][1] : i \in DOMAIN od}
Has(od, n) == n \in Keys(od)
Idx(od, n) == CHOOSE i \in DOMAIN od : od[i][1] = n
Get(od, n) == od[Idx(od, n)][2]
RemoveAt(s, i) == [j \in 1 .. (Len(s) - 1) |-> IF j < i THEN s[j] ELSE s[j + 1]]
ODel(od, n) == RemoveAt(od, Idx(od, n))
OSet(od, n, v) ==
    IF Has(od, n) THEN [od EXCEPT ![Idx(od, n)] = <<n, v>>]
    ELSE Append(od, <<n, v>>)

\* list indexing lst[i] / del lst[i]: a negative i counts from the end
PyIndex(lst, i) == IF i < 0 THEN i + Len(lst) ELSE i
InRange(lst, i) == PyIndex(lst, i) >= 0 /\ PyIndex(lst, i) < Len(lst)
ListGet(lst, i) == lst[PyIndex(lst, i) + 1]
\* del lst[i] taking the 1-based index for the 0-based one
ListDelOneBased(lst, i) == RemoveAt(lst, PyIndex(lst, i) + 2)
ListDel(lst, i) == RemoveAt(lst, PyIndex(lst, i) + 1)

\* ------------------------------------------------------------- persistence
\* json.dump writes every key as a string; json.load returns str keys
JsonKey(k) == IF k[1] = "int" THEN PyStr(ToString(k[2])) ELSE k
JsonDump(d) ==
    [j \in {JsonKey(k) : k \in DOMAIN d} |->
        d[CHOOSE k \in DOMAIN d : JsonKey(k) = j]]
JsonLoad(doc) == doc

\* whole: the content is a complete JSON document
NoFile == [exists |-> FALSE, whole |-> TRUE, doc |-> EmptyDict]
File(doc) == [exists |-> TRUE, whole |-> TRUE, doc |-> doc]
\* the file after open(.., "w") truncated it and before json.dump and the
\* close have written all of the new text: empty, or a prefix of a document
Torn == [exists |-> TRUE, whole |-> FALSE, doc |-> EmptyDict]
\* json.load returns rather than raising JSONDecodeError
Parses(f) == f.whole

\* __load_playlists
load_playlists(f) == IF f.exists THEN JsonLoad(f.doc) ELSE EmptyDict

\* __save_playlists: the file after open(.., "w") and json.dump
save_playlists(d) == File(JsonDump(d))

\* --------------------------------------------------- well-formed documents
TrackLists == UNION {[1 .. n -> TrackUrls] : n \in 0 .. MaxTracks}
NameOrders ==
    UNION {{s \in [1 .. n -> PlaylistNames] :
               \A i, j \in 1 .. n : i # j => s[i] # s[j]} :
           n \in 0 .. Cardinality(PlaylistNames)}
ODicts ==
    UNION {{[i \in 1 .. Len(o) |-> <<o[i], f[i]>>] :
               f \in [1 .. Len(o) -> TrackLists]} : o \in NameOrders}
GuildKeys == {str(g) : g \in GuildIds}
RECURSIVE SumSeq(_)
SumSeq(s) == IF s = <<>> THEN 0 ELSE Head(s) + SumSeq(Tail(s))
RECURSIVE SumOver(_, _)
SumOver(f, ks) ==
    IF ks = {} THEN 0
    ELSE LET k == CHOOSE x \in ks : TRUE
         IN f[k] + SumOver(f, ks \ {k})
PlaylistCount(d) == SumOver([k \in DOMAIN d |-> Len(d[k])], DOMAIN d)
TrackCount(d) ==
    SumOver([k \in DOMAIN d |->
                SumSeq([i \in DOMAIN d[k] |-> Len(d[k][i][2])])], DOMAIN d)
\* the files the bot starts from: as many playlists as there are names,
\* MaxTracks tracks in all
Documents ==
    {d \in UNION {[ks -> ODicts] : ks \in SUBSET GuildKeys} :
        /\ PlaylistCount(d) <= Cardinality(PlaylistNames)
        /\ TrackCount(d) <= MaxTracks}

\* ------------------------------------------------------------ the transformer
\* PlaylistTransformer.transform: the name must be a playlist of the guild.
\* It runs before the handler of delete, rename, add and remove, with no
\* suspension in between, on the dict the command group holds.
transform(g, value) ==
    str(g) \in DOMAIN playlists /\ Has(playlists[str(g)], value)

\* ------------------------------------------------------------------ history
Idle == [pc |-> "idle"]
\* the reply of a command: what it answered and the value it showed; for
\* remove also the request (guild, name, index) and the tracks it found
Reply(op, result, reported, g, name, track_id, before) ==
    [op |-> op, result |-> result, reported |-> reported, guild |-> g,
     name |-> name, track_id |-> track_id, before |-> before]
Done(op, result, reported) == Reply(op, result, reported, 0, "", 0, <<>>)
NoOp == Done("none", "none", <<>>)

Init ==
    /\ disk \in {NoFile} \cup {File(d) : d \in Documents}
    /\ playlists = load_playlists(disk)
    /\ tasks = [t \in Tasks |-> Idle]
    /\ last = NoOp
    /\ fault = "none"
    /\ up = TRUE

\* ------------------------------------------------------------------- saving
\* the end of a handler that has built the dict new in self.playlists:
\* self.__save_playlists(), then the reply.  An exception of the save ends
\* the handler before its reply; nothing in the handler undoes the change
\* it made to self.playlists.
Persist(new, reply) ==
    IF fault = "none"
    THEN /\ playlists' = new
         /\ disk' = save_playlists(new)
         /\ last' = reply
         /\ UNCHANGED <<fault, up>>
    ELSE IF fault = "unavailable"
    THEN /\ playlists' = new
         /\ disk' = disk
         /\ last' = [reply EXCEPT !.result = "OSError", !.reported = <<>>]
         /\ UNCHANGED <<fault, up>>
    ELSE /\ playlists' = EmptyDict
         /\ disk' = Torn
         /\ last' = [reply EXCEPT !.result = "Killed", !.reported = <<>>]
         /\ fault' = "none"
         /\ up' = FALSE

\* --------------------------------------------------------------------- list
Listing(od) == [i \in DOMAIN od |-> <<od[i][1], Len(od[i][2])>>]

\* what list_playlist answers on the store d
list_reply(d, g) ==
    IF d = EmptyDict
    THEN Done("list", "NoPlaylists", <<>>)
    ELSE IF str(g) \notin DOMAIN d
    THEN Done("list", "KeyError", <<>>)
    ELSE Done("list", "Listed", Listing(d[str(g)]))

list_playlist(g) ==
    /\ up
    /\ UNCHANGED <<playlists, disk, tasks, fault, up>>
    /\ last' = list_reply(playlists, g)

\* ------------------------------------------------------------------- create
create_playlist(g, name) ==
    /\ up
    /\ UNCHANGED tasks
    /\ IF PyStr(name) \in DOMAIN playlists
       THEN /\ UNCHANGED <<playlists, disk, fault, up>>
            /\ last' = Done("create", "AlreadyExists", <<>>)
       ELSE LET reset == IF NotGet(playlists, PyInt(g))
                         THEN DictSet(playlists, str(g), <<>>)
                         ELSE playlists
            IN IF str(g) \notin DOMAIN reset
               THEN /\ UNCHANGED <<playlists, disk, fault, up>>
                    /\ last' = Done("create", "KeyError", <<>>)
               ELSE LET new == DictSet(reset, str(g),
                                       OSet(reset[str(g)], name, <<>>))
                    IN Persist(new, Done("create", "Created", <<>>))

\* ------------------------------------------------------------------- delete
delete_playlist(g, name) ==
    /\ up
    /\ UNCHANGED tasks
    /\ IF ~transform(g, name)
       THEN /\ UNCHANGED <<playlists, disk, fault, up>>
            /\ last' = Done("delete", "NotFound", <<>>)
       ELSE IF PyStr(name) \notin DOMAIN playlists
       THEN /\ UNCHANGED <<playlists, disk, fault, up>>
            /\ last' = Done("delete", "NotFound", <<>>)
       ELSE LET new == DictSet(playlists, str(g), ODel(playlists[str(g)], name))
            IN Persist(new, Done("delete", "Deleted", <<>>))

\* ------------------------------------------------------------------- rename
rename_playlist(g, name, new_name) ==
    /\ up
    /\ UNCHANGED tasks
    /\ IF ~transform(g, name)
       THEN /\ UNCHANGED <<playlists, disk, fault, up>>
            /\ last' = Done("rename", "NotFound", <<>>)
       ELSE IF PyStr(name) \notin DOMAIN playlists
       THEN /\ UNCHANGED <<playlists, disk, fault, up>>
            /\ last' = Done("rename", "NotFound", <<>>)
       ELSE IF PyInt(g) \notin DOMAIN playlists
       THEN /\ UNCHANGED <<playlists, disk, fault, up>>
            /\ last' = Done("rename", "KeyError", <<>>)
       ELSE IF Has(playlists[PyInt(g)], new_name)
       THEN /\ UNCHANGED <<playlists, disk, fault, up>>
            /\ last' = Done("rename", "AlreadyExists", <<>>)
       ELSE IF ~Has(playlists[PyInt(g)], name)
       THEN /\ UNCHANGED <<playlists, disk, fault, up>>
            /\ last' = Done("rename", "KeyError", <<>>)
       ELSE LET od == playlists[PyInt(g)]
                new == DictSet(playlists, PyInt(g),
                               OSet(ODel(od, name), new_name, Get(od, name)))
            IN Persist(new, Done("rename", "Renamed", <<>>))

\* ---------------------------------------------------------------------- add
\* YTSource.fetch_track_by_url: a Track, or None when the url does not resolve
fetch_track_by_url(url) == IF url \in TrackUrls THEN "Track" ELSE "None"

\* the transformer, then `await interaction.response.defer()` suspends
add_to_playlist(t, g, name, url) ==
    /\ up
    /\ tasks[t] = Idle
    /\ UNCHANGED <<playlists, disk, fault, up>>
    /\ IF ~transform(g, name)
       THEN /\ last' = Done("add", "NotFound", <<>>)
            /\ UNCHANGED tasks
       ELSE /\ tasks' = [tasks EXCEPT ![t] =
                            [pc |-> "deferred", guild |-> g, name |-> name,
                             url |-> url]]
            /\ UNCHANGED last

\* the handler resumed after defer(), or after the resolver's answer
add_to_playlist_resume(t) ==
    /\ up
    /\ tasks[t] # Idle
    /\ LET g == tasks[t].guild
           name == tasks[t].name
           url == tasks[t].url
           finish(result) ==
               /\ tasks' = [tasks EXCEPT ![t] = Idle]
               /\ last' = Done("add", result, <<>>)
       IN IF tasks[t].pc = "deferred"
          THEN /\ UNCHANGED <<playlists, disk, fault, up>>
               /\ IF PyInt(g) \notin DOMAIN playlists
                  THEN finish("KeyError")
                  ELSE IF ~Has(playlists[PyInt(g)], name)
                  THEN finish("NotFound")
                  ELSE /\ tasks' = [tasks EXCEPT ![t].pc = "resolving"]
                       /\ UNCHANGED last
          ELSE IF fetch_track_by_url(url) = "None"
          THEN /\ UNCHANGED <<playlists, disk, fault, up>>
               /\ finish("TrackNotFound")
          ELSE IF PyInt(g) \notin DOMAIN playlists
                  \/ ~Has(playlists[PyInt(g)], name)
          THEN /\ UNCHANGED <<playlists, disk, fault, up>>
               /\ finish("KeyError")
          ELSE LET od == playlists[PyInt(g)]
                   new == DictSet(playlists, PyInt(g),
                                  OSet(od, name, Append(Get(od, name), url)))
               IN /\ tasks' = [tasks EXCEPT ![t] = Idle]
                  /\ Persist(new, Done("add", "Added", <<>>))

\* ------------------------------------------------------------------- remove
\* the playlist keeps the list the del left, whatever its length
KeepEmpty(od, name, rest) == OSet(od, name, rest)
\* the playlist keeps the list the del left; `if not ...: del ...[name]`
\* deletes the playlist that has no track left
DelIfEmpty(od, name, rest) ==
    IF rest = <<>> THEN ODel(od, name) ELSE OSet(od, name, rest)

remove_from_playlist(g, name, track_id) ==
    /\ up
    /\ UNCHANGED tasks
    /\ IF ~transform(g, name)
       THEN /\ UNCHANGED <<playlists, disk, fault, up>>
            /\ last' = Done("remove", "NotFound", <<>>)
       ELSE LET od == playlists[str(g)]
                lst == Get(od, name)
                Removal(result, reported) ==
                    Reply("remove", result, reported, g, name, track_id, lst)
            IN IF 0 > track_id - 1 /\ track_id - 1 > Len(lst)
               THEN /\ UNCHANGED <<playlists, disk, fault, up>>
                    /\ last' = Removal("IndexOutOfRange", <<>>)
               ELSE IF ~InRange(lst, track_id - 1)
               THEN /\ UNCHANGED <<playlists, disk, fault, up>>
                    /\ last' = Removal("IndexError", <<>>)
               ELSE LET rest == ListDel(lst, track_id - 1)
                        od2 == DelIfEmpty(od, name, rest)
                        new == DictSet(playlists, str(g), od2)
                    IN Persist(new,
                               IF ~Has(od2, name)
                               THEN Removal("KeyError", <<>>)
                               ELSE IF ~InRange(rest, track_id - 1)
                               THEN Removal("IndexError", <<>>)
                               ELSE Removal("Removed",
                                            <<ListGet(rest, track_id - 1)>>))

Next ==
    \/ \E g \in GuildIds : list_playlist(g)
    \/ \E g \in GuildIds, name \in PlaylistNames : create_playlist(g, name)
    \/ \E g \in GuildIds, name \in PlaylistNames : delete_playlist(g, name)
    \/ \E g \in GuildIds, name, new_name \in PlaylistNames :
          rename_playlist(g, name, new_name)
    \/ \E t \in OneTask, g \in GuildIds, name \in PlaylistNames, url \in Urls :
          add_to_playlist(t, g, name, url)
    \/ \E t \in OneTask : add_to_playlist_resume(t)
    \/ \E g \in GuildIds, name \in PlaylistNames, track_id \in TrackIds :
          remove_from_playlist(g, name, track_id)

Spec == Init /\ [][Next]_vars

\* ------------------------------------------- add commands running together
\* the files of one playlist at most
SmallDocuments == {d \in Documents : PlaylistCount(d) <= 1}

InitSmall ==
    /\ disk \in {NoFile} \cup {File(d) : d \in SmallDocuments}
    /\ playlists = load_playlists(disk)
    /\ tasks = [t \in Tasks |-> Idle]
    /\ last = NoOp
    /\ fault = "none"
    /\ up = TRUE

\* as Next, with every task free to start an add command while another
\* one is suspended
NextConcurrent ==
    \/ \E g \in GuildIds : list_playlist(g)
    \/ \E g \in GuildIds, name \in PlaylistNames : create_playlist(g, name)
    \/ \E g \in GuildIds, name \in PlaylistNames : delete_playlist(g, name)
    \/ \E g \in GuildIds, name, new_name \in PlaylistNames :
          rename_playlist(g, name, new_name)
    \/ \E t \in Tasks, g \in GuildIds, name \in PlaylistNames, url \in Urls :
          add_to_playlist(t, g, name, url)
    \/ \E t \in Tasks : add_to_playlist_resume(t)
    \/ \E g \in GuildIds, name \in PlaylistNames, track_id \in TrackIds :
          remove_from_playlist(g, name, track_id)

SpecConcurrent == InitSmall /\ [][NextConcurrent]_vars

\* ------------------------------------------------- failing writes, crashes
\* the operating system changes what the next write of the file will meet
strike(f) ==
    /\ up
    /\ fault # f
    /\ fault' = f
    /\ UNCHANGED <<playlists, disk, tasks, last, up>>

\* the process is killed while no handler is running
kill ==
    /\ up
    /\ up' = FALSE
    /\ playlists' = EmptyDict
    /\ tasks' = [t \in Tasks |-> Idle]
    /\ last' = Done("kill", "Killed", <<>>)
    /\ UNCHANGED <<disk, fault>>

\* the bot is started again: PlaylistGroup.__init__ reads the file; a
\* JSONDecodeError of json.load leaves the command group unconstructed
restart ==
    /\ ~up
    /\ tasks' = [t \in Tasks |-> Idle]
    /\ UNCHANGED <<disk, fault>>
    /\ IF Parses(disk)
       THEN /\ playlists' = load_playlists(disk)
            /\ up' = TRUE
            /\ last' = Done("init", "Loaded", <<>>)
       ELSE /\ playlists' = EmptyDict
            /\ up' = FALSE
            /\ last' = Done("init", "JSONDecodeError", <<>>)

NextFaults ==
    \/ Next
    \/ \E f \in Faults : strike(f)
    \/ kill
    \/ restart

SpecFaults == InitSmall /\ [][NextFaults]_vars

\* ------------------------------------------------------ what the claims read
\* playlist n is present in guild g of the store d
Present(d, g, n) == str(g) \in DOMAIN d /\ Has(d[str(g)], n)
\* the track sequence of playlist n of guild g
TracksOf(d, g, n) == Get(d[str(g)], n)
\* the store d is what playlists.json holds
Persisted(d, f) == f.exists /\ Parses(f) /\ load_playlists(f) = d
\* a list(g) on the store d shows n with the given track count
Lists(d, g, n, count) ==
    /\ list_reply(d, g).result = "Listed"
    /\ \E i \in DOMAIN list_reply(d, g).reported :
          list_reply(d, g).reported[i] = <<n, count>>

\* C1: create(g,n) with n not present in g succeeds, whatever n is (also a
\* name equal to a guild identifier), and a following list(g) shows n with
\* 0 tracks.
C1_CreateThenList ==
    [][\A g \in GuildIds, n \in PlaylistNames :
          (~Present(playlists, g, n) /\ create_playlist(g, n))
              => (last'.result = "Created" /\ Lists(playlists', g, n, 0))]_vars

\* C2: create(g,n) with n already present in g answers AlreadyExists and
\* leaves the store in memory and on disk as they were.
C2_CreateExisting ==
    [][\A g \in GuildIds, n \in PlaylistNames :
          (Present(playlists, g, n) /\ create_playlist(g, n))
              => (/\ last'.result = "AlreadyExists"
                  /\ playlists' = playlists
                  /\ disk' = disk)]_vars

\* C3: a present playlist stays present with the same tracks across every
\* step of a command that does not name it (NamesIt: a create, delete,
\* rename, remove or add given its guild and name).
NamesIt(g, n) ==
    \/ create_playlist(g, n)
    \/ delete_playlist(g, n)
    \/ \E b \in PlaylistNames : rename_playlist(g, n, b)
    \/ \E i \in TrackIds : remove_from_playlist(g, n, i)
    \/ \E t \in Tasks :
          /\ tasks[t] # Idle /\ tasks[t].guild = g /\ tasks[t].name = n
          /\ add_to_playlist_resume(t)
Kept(g, n) ==
    /\ Present(playlists', g, n)
    /\ TracksOf(playlists', g, n) = TracksOf(playlists, g, n)
C3_Frame ==
    [][\A g \in GuildIds, n \in PlaylistNames :
          (Present(playlists, g, n) /\ ~Kept(g, n)) => NamesIt(g, n)]_vars

\* C4: delete(g,name) of a present playlist removes exactly that entry of
\* g's mapping and persists the result, and a following list(g) does not
\* show name.
C4_DeletePresent ==
    [][\A g \in GuildIds, n \in PlaylistNames :
          (Present(playlists, g, n) /\ delete_playlist(g, n))
              => (/\ last'.result = "Deleted"
                  /\ str(g) \in DOMAIN playlists'
                  /\ playlists'[str(g)] = ODel(playlists[str(g)], n)
                  /\ Persisted(playlists', disk')
                  /\ \A c \in 0 .. MaxTracks : ~Lists(playlists', g, n, c))]_vars

\* C5: rename(g,a,b) with a present and b absent succeeds; afterwards b has
\* the track sequence a had, a is gone, and the result is persisted.
C5_RenameMoves ==
    [][\A g \in GuildIds, a, b \in PlaylistNames :
          (/\ Present(playlists, g, a) /\ ~Present(playlists, g, b)
           /\ rename_playlist(g, a, b))
              => (/\ last'.result = "Renamed"
                  /\ Present(playlists', g, b)
                  /\ TracksOf(playlists', g, b) = TracksOf(playlists, g, a)
                  /\ ~Present(playlists', g, a)
                  /\ Persisted(playlists', disk'))]_vars

\* C6: rename(g,a,b) with b already present answers AlreadyExists and
\* changes nothing in memory or on disk.
C6_RenameCollision ==
    [][\A g \in GuildIds, a, b \in PlaylistNames :
          (/\ a # b /\ Present(playlists, g, a) /\ Present(playlists, g, b)
           /\ rename_playlist(g, a, b))
              => (/\ last'.result = "AlreadyExists"
                  /\ playlists' = playlists
                  /\ disk' = disk)]_vars

\* an add command of task t ends in this step
AddEnds(t) ==
    tasks[t] # Idle /\ add_to_playlist_resume(t) /\ tasks'[t] = Idle

\* C7: addTrack(g,name,url) on a present playlist with a url the resolver
\* accepts appends url as the last track, persists, and reports success.
C7_AddAppends ==
    [][\A t \in Tasks :
          (/\ AddEnds(t)
           /\ Present(playlists, tasks[t].guild, tasks[t].name)
           /\ fetch_track_by_url(tasks[t].url) = "Track")
              => (/\ last'.result = "Added"
                  /\ Present(playlists', tasks[t].guild, tasks[t].name)
                  /\ TracksOf(playlists', tasks[t].guild, tasks[t].name)
                       = Append(TracksOf(playlists, tasks[t].guild,
                                         tasks[t].name), tasks[t].url)
                  /\ Persisted(playlists', disk'))]_vars

\* C8: addTrack(g,name,url) with a url the resolver rejects answers
\* TrackNotFound, leaves the track sequence as it was and persists nothing.
C8_AddRejected ==
    [][\A t \in Tasks :
          (/\ AddEnds(t)
           /\ Present(playlists, tasks[t].guild, tasks[t].name)
           /\ fetch_track_by_url(tasks[t].url) = "None")
              => (/\ last'.result = "TrackNotFound"
                  /\ playlists' = playlists
                  /\ disk' = disk)]_vars

\* C9: removeTrack(g,name,index) with index outside [1, track_count] fails
\* with IndexOutOfRange (read here as widely as it can be: the handler's
\* own reply or an index error it raises), removes no track and leaves
\* memory and disk as they were.
C9_RemoveOutOfRange ==
    [][\A g \in GuildIds, n \in PlaylistNames, i \in TrackIds :
          (/\ Present(playlists, g, n)
           /\ i \notin 1 .. Len(TracksOf(playlists, g, n))
           /\ remove_from_playlist(g, n, i))
              => (/\ last'.result \in {"IndexOutOfRange", "IndexError"}
                  /\ playlists' = playlists
                  /\ disk' = disk)]_vars

\* the tracks of playlist n of guild g, none when the playlist is gone
Remaining(d, g, n) == IF Present(d, g, n) THEN TracksOf(d, g, n) ELSE <<>>

\* C10: removeTrack(g,name,index) with index in [1, track_count] removes
\* exactly the track at 1-based position index: the tracks before it keep
\* their positions, the tracks after it move up by one.
C10_RemoveValidIndex ==
    (last.op = "remove" /\ last.track_id \in 1 .. Len(last.before))
        => LET after == Remaining(playlists, last.guild, last.name)
           IN /\ Len(after) = Len(last.before) - 1
              /\ \A j \in 1 .. Len(after) :
                    after[j] = IF j < last.track_id THEN last.before[j]
                               ELSE last.before[j + 1]

\* a removeTrack with a valid index, not the last one, of a playlist of two
\* tracks or more has run: a track moved up
C10_Witness ==
    /\ last.op = "remove"
    /\ Len(last.before) >= 2
    /\ last.track_id \in 1 .. (Len(last.before) - 1)
    /\ Present(playlists, last.guild, last.name)

\* C11: a removeTrack that removes the only track of a playlist deletes the
\* playlist from the guild's mapping, persists that, ends as a success, and
\* a following list(g) does not show the playlist.
C11_RemoveOnlyTrack ==
    (last.op = "remove" /\ Len(last.before) = 1 /\ last.track_id = 1)
        => /\ last.result = "Removed"
           /\ ~Present(playlists, last.guild, last.name)
           /\ Persisted(playlists, disk)
           /\ \A c \in 0 .. MaxTracks :
                 ~Lists(playlists, last.guild, last.name, c)

\* C12: a removeTrack with an index in [1, track_count] never fails, and
\* the track it reports as removed is the one that stood at that position
\* before the removal (also for the last position, and when the playlist
\* goes with its last track).
C12_RemoveReports ==
    (last.op = "remove" /\ last.track_id \in 1 .. Len(last.before))
        => /\ last.result = "Removed"
           /\ last.reported = <<last.before[last.track_id]>>

\* C13: two addTrack commands on one present playlist, started together
\* with urls the resolver accepts and interleaved at their suspension
\* points, both end as a success and neither loses the other's track: the
\* one that ends while the other is in flight reports Added, keeps every
\* track the playlist holds, adds its own as the last one, and persists.
C13_ConcurrentAdds ==
    [][\A t, o \in Tasks :
          (/\ t # o
           /\ AddEnds(t)
           /\ tasks[o] # Idle
           /\ tasks[o].guild = tasks[t].guild
           /\ tasks[o].name = tasks[t].name
           /\ Present(playlists, tasks[t].guild, tasks[t].name)
           /\ fetch_track_by_url(tasks[t].url) = "Track"
           /\ fetch_track_by_url(tasks[o].url) = "Track")
              => (/\ last'.result = "Added"
                  /\ Remaining(playlists', tasks[t].guild, tasks[t].name)
                       = Append(TracksOf(playlists, tasks[t].guild,
                                         tasks[t].name), tasks[t].url)
                  /\ Persisted(playlists', disk'))]_vars

\* the playlists of guild g in the store d
GuildView(d, g) == IF str(g) \in DOMAIN d THEN d[str(g)] ELSE <<>>

\* C14: while an addTrack on guild g is suspended after its check that the
\* playlist exists (the transformer's, made before the first await), no
\* step of another command changes the playlists of g.
C14_AddExcludesOthers ==
    [][\A t \in Tasks :
          (tasks[t] # Idle /\ tasks'[t] = tasks[t])
              => GuildView(playlists', tasks[t].guild)
                   = GuildView(playlists, tasks[t].guild)]_vars

\* C15: a command whose save fails with StorageUnavailable (the OSError of
\* open) is reported as failed and leaves self.playlists as it was before
\* the command started.
C15_SaveFailureRollsBack ==
    [][last'.result = "OSError" => playlists' = playlists]_vars

\* C16: the save is atomic with respect to a kill of the process: the file
\* always holds a complete document, and the load of a restart never meets
\* an empty, cut or unparsable file.
C16_SaveAtomic ==
    /\ Parses(disk)
    /\ last.result # "JSONDecodeError"

\* C17: list(g) never fails; it shows the playlists of g in stored order
\* with their track counts, and nothing for a guild without playlists,
\* whether or not other guilds have playlists.
C17_ListNeverFails ==
    [][\A g \in GuildIds :
          list_playlist(g)
              => (/\ last'.result \in {"Listed", "NoPlaylists"}
                  /\ last'.reported = Listing(GuildView(playlists, g)))]_vars

\* C18: after any sequence of completed commands, successful or failed,
\* the file holds what self.playlists holds: a restart that loads the file
\* gets exactly the dict the service held.
C18_DiskMatchesMemory ==
    (up /\ \A t \in Tasks : tasks[t] = Idle)
        => (Parses(disk) /\ load_playlists(disk) = playlists)

\* playlist n of guild g is in the file f with no track
EmptyIn(f, g, n) ==
    /\ f.exists /\ Parses(f)
    /\ Present(load_playlists(f), g, n)
    /\ TracksOf(load_playlists(f), g, n) = <<>>

\* C19: no command writes a playlist of length 0 to the file: a playlist
\* that is in the file with no track after a step was there with no track
\* before it.
C19_NoEmptyWritten ==
    [][\A g \in GuildIds, n \in PlaylistNames :
          EmptyIn(disk', g, n) => EmptyIn(disk, g, n)]_vars

\* C19, amended: a removeTrack on a playlist that holds a track never
\* leaves that playlist in the file with length 0 (the playlist it empties
\* is deleted before the save); create does write its new playlist with
\* length 0.
C19_RemoveLeavesNoEmpty ==
    (last.op = "remove" /\ last.before # <<>>)
        => ~EmptyIn(disk, last.guild, last.name)

\* a removeTrack has taken the only track of a playlist, and the file no
\* longer holds the playlist
C19_Witness ==
    /\ last.op = "remove"
    /\ Len(last.before) = 1
    /\ last.track_id = 1
    /\ disk.exists
    /\ ~Present(load_playlists(disk), last.guild, last.name)

\* the store d without the guilds other than g
Alone(d, g) == [k \in DOMAIN d \cap {str(g)} |-> d[k]]

\* C20: a command of guild g answers the same, and leaves the playlists of
\* g the same, on two stores that agree on g and differ in the other
\* guilds; checked on list(g): its reply on the store equals its reply on
\* the store without the other guilds.
C20_GuildIsolation ==
    [][\A g \in GuildIds :
          list_playlist(g) => last' = list_reply(Alone(playlists, g), g)]_vars
====
